---- MODULE Spec2Model ----
(***************************************************************************)
(* A model of the toolbar view of ckeditor5-ui (src/src/toolbar/           *)
(* toolbarview.js) and of the two pure helpers of the utilities library    *)
(* (src/unnamed/part_000: uid, compareArrays).                             *)
(*                                                                         *)
(* Three specifications share the module's variables:                      *)
(*   Spec         the toolbar (static and dynamic-grouping kinds),         *)
(*   SpecUid      successive calls of utils.uid,                           *)
(*   SpecCompare  utils.compareArrays applied to bounded arrays.           *)
(***************************************************************************)
EXTENDS Integers, Sequences, FiniteSets, TLC

VARIABLES
    \* ---- utils (src/unnamed/part_000) ----
    next,            \* the closure variable `next` of utils.uid
    uidResults,      \* history: the values returned by uid(), in call order
    a, b,            \* the arguments of compareArrays
    cmpResult,       \* the value returned by compareArrays( a, b ), NotCalled before the call
    \* ---- ToolbarView (src/src/toolbar/toolbarview.js) ----
    shouldGroupWhenFull,   \* options.shouldGroupWhenFull: DynamicGroupingToolbar or StaticToolbar
    uiLanguageDirection,   \* view.locale.uiLanguageDirection
    items,                 \* view.items
    itemsViewItems,        \* view._itemsView.items, the displayed items
    ungroupedItems,        \* DynamicGroupingToolbar#ungroupedItems
    groupedItems,          \* DynamicGroupingToolbar#groupedItems
    components,            \* view._components
    focusCycleableItems,   \* view._focusCycleableItems
    updateLock,            \* DynamicGroupingToolbar#_updateLock
    cachedPadding,         \* DynamicGroupingToolbar#_cachedPadding (0 stands for null: both are falsy)
    resizeObserver,        \* DynamicGroupingToolbar#_resizeObserver: "null", "observing", "disconnected"
    previousWidth,         \* `previousWidth` of enableGroupingOnResize (0 stands for undefined: both are falsy)
    isRendered,            \* view.element exists (it is created by render())
    inDocument,            \* document.body contains view.element
    toolbarWidth,          \* the content width of view.element
    destroyCalled,         \* destroy() was called
    dropdownDestroyed,     \* groupedItemsDropdown.destroy() ran
    viewDestroyed,         \* View#destroy (super.destroy()) ran
    thrown,                \* the exception the last operation ended with, "none" when it returned
    lastUpdate,            \* how the last updateGrouping() call of the last operation ended
    lastOp,                \* history: the last operation
    lastConfig             \* history: the config of the last fillFromConfig() call

utilsVars == <<next, uidResults, a, b, cmpResult>>

toolbarVars ==
    <<shouldGroupWhenFull, uiLanguageDirection, items, itemsViewItems, ungroupedItems,
      groupedItems, components, focusCycleableItems, updateLock, cachedPadding,
      resizeObserver, previousWidth, isRendered, inDocument, toolbarWidth, destroyCalled,
      dropdownDestroyed, viewDestroyed, thrown, lastUpdate, lastOp, lastConfig>>

vars == <<utilsVars, toolbarVars>>

(***************************************************************************)
(* Bounds of the model.                                                    *)
(***************************************************************************)
MaxUidCalls == 120
MaxLen == 3

\* The largest array element of the documented examples of compareArrays.
MaxElem == 3

(***************************************************************************)
(* utils.uid                                                               *)
(***************************************************************************)

\* A plausible slip: pre-increment instead of post-increment.
UidPreIncrement ==
    /\ Len(uidResults) < MaxUidCalls
    /\ next' = next + 1
    /\ uidResults' = Append(uidResults, next + 1)
    /\ UNCHANGED <<a, b, cmpResult>>
    /\ UNCHANGED toolbarVars

\* uid(): `return next++;`
Uid ==
    /\ Len(uidResults) < MaxUidCalls
    /\ next' = next + 1
    /\ uidResults' = Append(uidResults, next)
    /\ UNCHANGED <<a, b, cmpResult>>
    /\ UNCHANGED toolbarVars

(***************************************************************************)
(* utils.compareArrays                                                     *)
(***************************************************************************)
SAME == 0
PREFIX == 1
DIFFERENT == 2
NotCalled == 0 - 1

Min(x, y) == IF x < y THEN x ELSE y

Elems == 0..MaxElem

RECURSIVE SeqsUpTo(_)
SeqsUpTo(n) ==
    IF n = 0 THEN {<<>>}
    ELSE LET shorter == SeqsUpTo(n - 1)
         IN  shorter \cup {Append(s, e) : s \in {t \in shorter : Len(t) = n - 1}, e \in Elems}

Arrays == SeqsUpTo(MaxLen)

\* The for loop of compareArrays from index i (1-based here, 0-based in the source):
\* TRUE when some index below minLen holds different elements.
RECURSIVE LoopFindsDifference(_, _, _, _)
LoopFindsDifference(x, y, i, minLen) ==
    IF i > minLen THEN FALSE
    ELSE IF x[i] # y[i] THEN TRUE
    ELSE LoopFindsDifference(x, y, i + 1, minLen)

\* A plausible slip: the roles of the two lengths swapped in the `else if`.
compareArraysSwapped(x, y) ==
    LET minLen == Min(Len(x), Len(y))
    IN  IF LoopFindsDifference(x, y, 1, minLen) THEN DIFFERENT
        ELSE IF Len(x) = Len(y) THEN SAME
        ELSE IF Len(x) > Len(y) THEN PREFIX
        ELSE DIFFERENT

\* A plausible slip: the loop starts one index too far.
compareArraysSkipsFirst(x, y) ==
    LET minLen == Min(Len(x), Len(y))
    IN  IF LoopFindsDifference(x, y, 2, minLen) THEN DIFFERENT
        ELSE IF Len(x) = Len(y) THEN SAME
        ELSE IF Len(x) < Len(y) THEN PREFIX
        ELSE DIFFERENT

compareArrays(x, y) ==
    LET minLen == Min(Len(x), Len(y))
    IN  IF LoopFindsDifference(x, y, 1, minLen) THEN DIFFERENT
        ELSE IF Len(x) = Len(y) THEN SAME
        ELSE IF Len(x) < Len(y) THEN PREFIX
        ELSE DIFFERENT

CompareArrays ==
    /\ cmpResult = NotCalled
    /\ cmpResult' = compareArrays(a, b)
    /\ UNCHANGED <<next, uidResults, a, b>>
    /\ UNCHANGED toolbarVars


(***************************************************************************)
(* ToolbarView: items, collections and geometry                            *)
(***************************************************************************)
MaxItems == 3
MaxWidth == 5

\* The horizontal padding of the toolbar element, in the units of the widths.
ToolbarPadding == 1

\* Toolbar item names: '|' makes a ToolbarSeparatorView, the others are
\* components the factory has.
FactoryNames == {"bold"}
ItemNames == {"|"} \cup FactoryNames
\* Names a config may hold: "missing" is a name the factory does not have.
ConfigNames == ItemNames \cup {"missing"}

ItemIds == 1..MaxItems

\* A toolbar item (a view): its identity and the name it was created from.
Item(id, name) == [id |-> id, name |-> name]

\* The grouped items dropdown as a member of the focus-cycleable collection.
GroupedItemsDropdown == Item(0, "groupedItemsDropdown")

\* The rendered width of a view (DOM geometry, an input of the model).
ItemWidth(item) ==
    CASE item.name = "|" -> 1
      [] item.name = "bold" -> 2
      [] OTHER -> 2

ComponentWidth(c) ==
    CASE c = "separator" -> 1
      [] c = "groupedItemsDropdown" -> 2
      [] OTHER -> 0

Max(x, y) == IF x > y THEN x ELSE y

Range(seq) == {seq[i] : i \in 1..Len(seq)}

RECURSIVE SumWidths(_)
SumWidths(seq) ==
    IF seq = <<>> THEN 0 ELSE ItemWidth(Head(seq)) + SumWidths(Tail(seq))

RECURSIVE SumComponentWidths(_)
SumComponentWidths(seq) ==
    IF seq = <<>> THEN 0 ELSE ComponentWidth(Head(seq)) + SumComponentWidths(Tail(seq))

\* Collection#add( item, index ), index counted from 0 as in the source.
InsertAt(seq, item, index) ==
    SubSeq(seq, 1, index) \o <<item>> \o SubSeq(seq, index + 1, Len(seq))

\* Collection#remove( item ).
RECURSIVE RemoveFrom(_, _)
RemoveFrom(seq, item) ==
    IF seq = <<>> THEN <<>>
    ELSE IF Head(seq) = item THEN Tail(seq)
    ELSE <<Head(seq)>> \o RemoveFrom(Tail(seq), item)

\* The smallest identity no item of the toolbar has.
NewId(seq) == CHOOSE i \in ItemIds : /\ i \notin {x.id : x \in Range(seq)}
                                     /\ \A j \in 1..(i - 1) : j \in {x.id : x \in Range(seq)}

\* The toolbar as a record, for the handlers below to transform.
Cur ==
    [ shouldGroupWhenFull |-> shouldGroupWhenFull,
      uiLanguageDirection |-> uiLanguageDirection,
      items |-> items,
      itemsViewItems |-> itemsViewItems,
      ungroupedItems |-> ungroupedItems,
      groupedItems |-> groupedItems,
      components |-> components,
      focusCycleableItems |-> focusCycleableItems,
      updateLock |-> updateLock,
      cachedPadding |-> cachedPadding,
      resizeObserver |-> resizeObserver,
      previousWidth |-> previousWidth,
      isRendered |-> isRendered,
      inDocument |-> inDocument,
      toolbarWidth |-> toolbarWidth,
      destroyCalled |-> destroyCalled,
      dropdownDestroyed |-> dropdownDestroyed,
      viewDestroyed |-> viewDestroyed,
      thrown |-> "none",
      lastUpdate |-> "none" ]

Becomes(s) ==
    /\ shouldGroupWhenFull' = s.shouldGroupWhenFull
    /\ uiLanguageDirection' = s.uiLanguageDirection
    /\ items' = s.items
    /\ itemsViewItems' = s.itemsViewItems
    /\ ungroupedItems' = s.ungroupedItems
    /\ groupedItems' = s.groupedItems
    /\ components' = s.components
    /\ focusCycleableItems' = s.focusCycleableItems
    /\ updateLock' = s.updateLock
    /\ cachedPadding' = s.cachedPadding
    /\ resizeObserver' = s.resizeObserver
    /\ previousWidth' = s.previousWidth
    /\ isRendered' = s.isRendered
    /\ inDocument' = s.inDocument
    /\ toolbarWidth' = s.toolbarWidth
    /\ destroyCalled' = s.destroyCalled
    /\ dropdownDestroyed' = s.dropdownDestroyed
    /\ viewDestroyed' = s.viewDestroyed
    /\ thrown' = s.thrown
    /\ lastUpdate' = s.lastUpdate

(***************************************************************************)
(* DynamicGroupingToolbar                                                  *)
(***************************************************************************)

\* _updateFocusCycleableItems(): clear, add every ungrouped item, then the
\* dropdown when groupedItems.length is non-zero at the time of the call.
UpdateFocusCycleableItems(s) ==
    [s EXCEPT !.focusCycleableItems =
        s.ungroupedItems \o
            (IF Len(s.groupedItems) # 0 THEN <<GroupedItemsDropdown>> ELSE <<>>)]

\* ungroupedItems.add( item, index ): the bound _itemsView.items follows (the
\* binding's listener was registered first), then the 'add' listener runs.
UngroupedAdd(s, item, index) ==
    UpdateFocusCycleableItems(
        [s EXCEPT !.ungroupedItems = InsertAt(@, item, index),
                  !.itemsViewItems = InsertAt(@, item, index)])

\* ungroupedItems.remove( item ), with the binding and the 'remove' listener.
UngroupedRemove(s, item) ==
    UpdateFocusCycleableItems(
        [s EXCEPT !.ungroupedItems = RemoveFrom(@, item),
                  !.itemsViewItems = RemoveFrom(@, item)])

\* view._components.add( c ), with the 'add' listener. A collection refuses a
\* member it already holds (collection-add-item-already-exists); a separator is
\* a new view each time, the dropdown is always the same view.
ComponentsAdd(s, c) ==
    IF s.thrown # "none" THEN s
    ELSE IF c = "groupedItemsDropdown" /\ c \in Range(s.components)
    THEN [s EXCEPT !.thrown = "CKEditorError"]
    ELSE UpdateFocusCycleableItems([s EXCEPT !.components = Append(@, c)])

\* view._components.remove( c ), with the 'remove' listener
\* (collection-remove-404 when c is not a member).
ComponentsRemove(s, c) ==
    IF s.thrown # "none" THEN s
    ELSE IF c \notin Range(s.components)
    THEN [s EXCEPT !.thrown = "CKEditorError"]
    ELSE UpdateFocusCycleableItems([s EXCEPT !.components = RemoveFrom(@, c)])

\* view._components.remove( view._components.last ).
ComponentsRemoveLast(s) ==
    IF s.thrown # "none" THEN s
    ELSE IF s.components = <<>>
    THEN [s EXCEPT !.thrown = "CKEditorError"]
    ELSE UpdateFocusCycleableItems(
            [s EXCEPT !.components = SubSeq(@, 1, Len(@) - 1)])

\* The side effect of the areItemsOverflowing getter: the padding is read from
\* the computed style when nothing truthy is cached and the toolbar is not empty.
Measure(s) ==
    IF Len(s.ungroupedItems) = 0 \/ s.cachedPadding # 0 THEN s
    ELSE [s EXCEPT !.cachedPadding = ToolbarPadding]

\* The width the children of the element take: the items view grows to fill
\* the row (flex-grow) and never shrinks below its items (no wrapping).
ChildrenWidth(s) ==
    Max(SumWidths(s.itemsViewItems) + SumComponentWidths(s.components), s.toolbarWidth)

\* The rectangle of the toolbar element: left edge at 0, padding on both sides.
ToolbarRectLeft == 0
ToolbarRectRight(s) == ToolbarPadding + s.toolbarWidth + ToolbarPadding

\* The rectangle of element.lastChild: children are laid out from the padded
\* start edge of the row in the direction of the UI language.
LastChildRight(s) == ToolbarRectLeft + ToolbarPadding + ChildrenWidth(s)
LastChildLeft(s) == ToolbarRectRight(s) - ToolbarPadding - ChildrenWidth(s)

\* get areItemsOverflowing(), evaluated after Measure.
AreItemsOverflowing(s) ==
    IF Len(s.ungroupedItems) = 0 THEN FALSE
    ELSE IF s.uiLanguageDirection = "ltr"
    THEN LastChildRight(s) > ToolbarRectRight(s) - Measure(s).cachedPadding
    ELSE LastChildLeft(s) < ToolbarRectLeft + Measure(s).cachedPadding

\* A plausible slip: the grouped item is appended instead of put first.
GroupLastItemAppends(s) ==
    LET s1 == IF Len(s.groupedItems) = 0
              THEN ComponentsAdd(ComponentsAdd(s, "separator"), "groupedItemsDropdown")
              ELSE s
        last == s1.ungroupedItems[Len(s1.ungroupedItems)]
        s2 == UngroupedRemove(s1, last)
    IN  IF s1.thrown # "none" THEN s1
        ELSE [s2 EXCEPT !.groupedItems = Append(@, last)]

\* groupLastItem()
GroupLastItem(s) ==
    LET s1 == IF Len(s.groupedItems) = 0
              THEN ComponentsAdd(ComponentsAdd(s, "separator"), "groupedItemsDropdown")
              ELSE s
        last == s1.ungroupedItems[Len(s1.ungroupedItems)]
        s2 == UngroupedRemove(s1, last)
    IN  IF s1.thrown # "none" THEN s1
        ELSE [s2 EXCEPT !.groupedItems = InsertAt(@, last, 0)]

\* ungroupFirstItem()
UngroupFirstItem(s) ==
    LET first == s.groupedItems[1]
        s1 == [s EXCEPT !.groupedItems = RemoveFrom(@, first)]
        s2 == UngroupedAdd(s1, first, Len(s1.ungroupedItems))
    IN  IF Len(s2.groupedItems) = 0
        THEN ComponentsRemoveLast(ComponentsRemove(s2, "groupedItemsDropdown"))
        ELSE s2

\* while ( this.areItemsOverflowing ) { this.groupLastItem(); }
RECURSIVE GroupWhileOverflowing(_)
GroupWhileOverflowing(s) ==
    IF s.thrown # "none" THEN s
    ELSE IF AreItemsOverflowing(s) THEN GroupWhileOverflowing(GroupLastItem(Measure(s)))
    ELSE Measure(s)

\* while ( this.groupedItems.length && !this.areItemsOverflowing ) { this.ungroupFirstItem(); }
RECURSIVE UngroupWhileFitting(_)
UngroupWhileFitting(s) ==
    IF s.thrown # "none" THEN s
    ELSE IF Len(s.groupedItems) # 0 /\ ~AreItemsOverflowing(s)
    THEN UngroupWhileFitting(UngroupFirstItem(Measure(s)))
    ELSE IF Len(s.groupedItems) # 0 THEN Measure(s) ELSE s

\* A plausible slip: the clean-up after the ungrouping loop is left out.
UngroupWithoutUndo(s) == UngroupWhileFitting(s)

\* The ungrouping branch of updateGrouping(), with the final "undo the last ungroup".
UngroupAndUndo(s) ==
    LET s1 == UngroupWhileFitting(s)
    IN  IF s1.thrown # "none" THEN s1
        ELSE IF AreItemsOverflowing(s1) THEN GroupLastItem(Measure(s1))
        ELSE Measure(s1)

\* A plausible slip: the lock is taken but never tested.
UpdateGroupingIgnoresLock(s) ==
    IF ~s.isRendered THEN [s EXCEPT !.thrown = "TypeError", !.lastUpdate = "threw"]
    ELSE IF ~s.inDocument THEN [s EXCEPT !.lastUpdate = "detached"]
    ELSE LET s1 == [s EXCEPT !.updateLock = TRUE]
             wereItemsGrouped == AreItemsOverflowing(s1)
             s2 == GroupWhileOverflowing(s1)
             s3 == IF s2.thrown = "none" /\ ~wereItemsGrouped /\ Len(s2.groupedItems) # 0
                   THEN UngroupAndUndo(s2)
                   ELSE s2
         IN  IF s3.thrown # "none" THEN [s3 EXCEPT !.lastUpdate = "threw"]
             ELSE [s3 EXCEPT !.updateLock = FALSE, !.lastUpdate = "done"]

\* updateGrouping()
UpdateGrouping(s) ==
    IF s.updateLock THEN [s EXCEPT !.lastUpdate = "locked"]
    \* view.element is null before render(): view.element.ownerDocument throws.
    ELSE IF ~s.isRendered THEN [s EXCEPT !.thrown = "TypeError", !.lastUpdate = "threw"]
    ELSE IF ~s.inDocument THEN [s EXCEPT !.lastUpdate = "detached"]
    ELSE LET s1 == [s EXCEPT !.updateLock = TRUE]
             wereItemsGrouped == AreItemsOverflowing(s1)
             s2 == GroupWhileOverflowing(s1)
             s3 == IF s2.thrown = "none" /\ ~wereItemsGrouped /\ Len(s2.groupedItems) # 0
                   THEN UngroupAndUndo(s2)
                   ELSE s2
         IN  IF s3.thrown # "none" THEN [s3 EXCEPT !.lastUpdate = "threw"]
             ELSE [s3 EXCEPT !.updateLock = FALSE, !.lastUpdate = "done"]

\* The view.items 'add' listener of the DynamicGroupingToolbar constructor.
GroupingOnItemsAdd(s, item, index) ==
    IF index > Len(s.ungroupedItems)
    THEN [s EXCEPT !.groupedItems = InsertAt(@, item, index - Len(s.ungroupedItems))]
    ELSE UpdateGrouping(UngroupedAdd(s, item, index))

\* The view.items 'remove' listener of the DynamicGroupingToolbar constructor.
GroupingOnItemsRemove(s, item) ==
    UpdateGrouping(
        IF item \in Range(s.groupedItems)
        THEN [s EXCEPT !.groupedItems = RemoveFrom(@, item)]
        ELSE IF item \in Range(s.ungroupedItems)
        THEN UngroupedRemove(s, item)
        ELSE s)

\* enableGroupingOnResize(): the observer is created and observes the element,
\* `previousWidth` starts undefined, updateGrouping() runs once.
EnableGroupingOnResize(s) ==
    UpdateGrouping([s EXCEPT !.resizeObserver = "observing", !.previousWidth = 0])

\* The resize observer callback, for an entry whose contentRect.width is w.
\* A disconnected (or absent) observer delivers nothing.
ResizeCallback(s, w) ==
    IF s.resizeObserver # "observing" THEN s
    ELSE IF s.previousWidth = 0 \/ s.previousWidth # w
    THEN LET u == UpdateGrouping(s)
         IN  IF u.thrown # "none" THEN u ELSE [u EXCEPT !.previousWidth = w]
    ELSE s

\* A plausible slip: the observer is left connected.
GroupingDestroyKeepsObserver(s) ==
    LET s1 == [s EXCEPT !.dropdownDestroyed = TRUE]
    IN  IF s1.resizeObserver = "null" THEN [s1 EXCEPT !.thrown = "TypeError"]
        ELSE s1

\* DynamicGroupingToolbar#destroy(): _resizeObserver is null until
\* enableGroupingOnResize() ran, and null.disconnect() throws.
GroupingDestroy(s) ==
    LET s1 == [s EXCEPT !.dropdownDestroyed = TRUE]
    IN  IF s1.resizeObserver = "null" THEN [s1 EXCEPT !.thrown = "TypeError"]
        ELSE [s1 EXCEPT !.resizeObserver = "disconnected"]

(***************************************************************************)
(* StaticToolbar                                                           *)
(***************************************************************************)

\* The listeners the StaticToolbar constructor leaves on view.items.
\* `view._itemsView.items.bindTo( view.items ).using( item => item )` installs
\* the 1:1 binding. `view._focusCycleableItems.bindTo( view.items )` stops at
\* bindTo(): the binding is installed by the using()/as() of the object
\* bindTo() returns, which is not called, so the collection follows nothing.
StaticOnItemsAdd(s, item, index) ==
    [s EXCEPT !.itemsViewItems = InsertAt(@, item, index)]

StaticOnItemsRemove(s, item) ==
    [s EXCEPT !.itemsViewItems = RemoveFrom(@, item)]

(***************************************************************************)
(* ToolbarView                                                             *)
(***************************************************************************)

\* view.items.add( item, index ): the collection takes the item, then fires 'add'.
ItemsAdd(s, item, index) ==
    LET s1 == [s EXCEPT !.items = InsertAt(@, item, index)]
    IN  IF s.shouldGroupWhenFull THEN GroupingOnItemsAdd(s1, item, index)
        ELSE StaticOnItemsAdd(s1, item, index)

\* view.items.remove( item ): the collection drops the item, then fires 'remove'.
ItemsRemove(s, item) ==
    LET s1 == [s EXCEPT !.items = RemoveFrom(@, item)]
    IN  IF s.shouldGroupWhenFull THEN GroupingOnItemsRemove(s1, item)
        ELSE StaticOnItemsRemove(s1, item)

\* fillFromConfig(): config.reverse().map( ... ), entry n being the next one
\* to process (the entries are taken from the last to the first); an exception
\* of items.add() ends the call.
RECURSIVE FillFrom(_, _, _)
FillFrom(s, config, n) ==
    IF n = 0 \/ s.thrown # "none" THEN s
    ELSE LET name == config[n]
         IN  IF name = "|" \/ name \in FactoryNames
             THEN FillFrom(ItemsAdd(s, Item(NewId(s.items), name), 0), config, n - 1)
             ELSE FillFrom(s, config, n - 1)

\* render(): the element is created, then this._kind.render().
RenderView(s) ==
    LET s1 == [s EXCEPT !.isRendered = TRUE]
    IN  IF s.shouldGroupWhenFull THEN EnableGroupingOnResize(s1) ELSE s1

\* destroy(): this._kind.destroy(), then super.destroy(). StaticToolbar has no
\* destroy method, so the call throws for a static toolbar.
DestroyView(s) ==
    LET s0 == [s EXCEPT !.destroyCalled = TRUE]
        s1 == IF s.shouldGroupWhenFull THEN GroupingDestroy(s0)
              ELSE [s0 EXCEPT !.thrown = "TypeError"]
    IN  IF s1.thrown # "none" THEN s1 ELSE [s1 EXCEPT !.viewDestroyed = TRUE]

RECURSIVE ConfigsUpTo(_)
ConfigsUpTo(n) ==
    IF n = 0 THEN {<<>>}
    ELSE LET shorter == ConfigsUpTo(n - 1)
         IN  shorter \cup {Append(c, e) : c \in {t \in shorter : Len(t) = n - 1},
                                           e \in ConfigNames}

Configs == ConfigsUpTo(MaxItems)

(***************************************************************************)
(* Actions                                                                 *)
(***************************************************************************)

\* view.items.add( item, index ) with a new item at any valid index.
AddItem ==
    /\ ~destroyCalled
    /\ Len(items) < MaxItems
    /\ \E name \in ItemNames, index \in 0..Len(items) :
           Becomes(ItemsAdd(Cur, Item(NewId(items), name), index))
    /\ lastOp' = "add"
    /\ lastConfig' = <<>>
    /\ UNCHANGED utilsVars

\* view.items.remove( item ) with any item of the toolbar.
RemoveItem ==
    /\ ~destroyCalled
    /\ \E i \in 1..Len(items) : Becomes(ItemsRemove(Cur, items[i]))
    /\ lastOp' = "remove"
    /\ lastConfig' = <<>>
    /\ UNCHANGED utilsVars

\* view.fillFromConfig( config, factory ) on an empty toolbar.
FillFromConfig ==
    /\ ~destroyCalled
    /\ items = <<>>
    /\ \E config \in Configs :
           /\ Becomes(FillFrom(Cur, config, Len(config)))
           /\ lastConfig' = config
    /\ lastOp' = "fillFromConfig"
    /\ UNCHANGED utilsVars

\* view.render()
Render ==
    /\ ~destroyCalled
    /\ ~isRendered
    /\ Becomes(RenderView(Cur))
    /\ lastOp' = "render"
    /\ lastConfig' = <<>>
    /\ UNCHANGED utilsVars

\* The element is appended to the document and laid out w wide; the resize
\* observer reports the new size.
AppendToDocument ==
    /\ isRendered
    /\ ~inDocument
    /\ \E w \in 0..MaxWidth :
           Becomes(ResizeCallback([Cur EXCEPT !.inDocument = TRUE, !.toolbarWidth = w], w))
    /\ lastOp' = "append"
    /\ lastConfig' = <<>>
    /\ UNCHANGED utilsVars

\* The element is removed from the document; its size becomes 0 and the
\* resize observer reports it.
RemoveFromDocument ==
    /\ isRendered
    /\ inDocument
    /\ Becomes(ResizeCallback([Cur EXCEPT !.inDocument = FALSE, !.toolbarWidth = 0], 0))
    /\ lastOp' = "detach"
    /\ lastConfig' = <<>>
    /\ UNCHANGED utilsVars

\* The size of the element in the document changes (to the width w, or in
\* height only when w is the current width) and the observer is notified.
Resize ==
    /\ isRendered
    /\ inDocument
    /\ \E w \in 0..MaxWidth :
           Becomes(ResizeCallback([Cur EXCEPT !.toolbarWidth = w], w))
    /\ lastOp' = "resize"
    /\ lastConfig' = <<>>
    /\ UNCHANGED utilsVars

\* view.destroy(); a destroyed toolbar is not used again.
Destroy ==
    /\ ~destroyCalled
    /\ Becomes(DestroyView(Cur))
    /\ lastOp' = "destroy"
    /\ lastConfig' = <<>>
    /\ UNCHANGED utilsVars

(***************************************************************************)
(* Specifications                                                          *)
(***************************************************************************)

\* The state of the utilities before any call.
UtilsInit ==
    /\ next = 1
    /\ uidResults = <<>>
    /\ a = <<>>
    /\ b = <<>>
    /\ cmpResult = NotCalled

\* The toolbar after `new ToolbarView( locale, options )`.
ToolbarInit ==
    /\ shouldGroupWhenFull \in BOOLEAN
    /\ uiLanguageDirection \in {"ltr", "rtl"}
    /\ items = <<>>
    /\ itemsViewItems = <<>>
    /\ ungroupedItems = <<>>
    /\ groupedItems = <<>>
    /\ components = <<"itemsView">>
    /\ focusCycleableItems = <<>>
    /\ updateLock = FALSE
    /\ cachedPadding = 0
    /\ resizeObserver = "null"
    /\ previousWidth = 0
    /\ isRendered = FALSE
    /\ inDocument = FALSE
    /\ toolbarWidth = 0
    /\ destroyCalled = FALSE
    /\ dropdownDestroyed = FALSE
    /\ viewDestroyed = FALSE
    /\ thrown = "none"
    /\ lastUpdate = "none"
    /\ lastOp = "new"
    /\ lastConfig = <<>>

\* The toolbar untouched, for the specifications of the utilities.
ToolbarIdle ==
    /\ ToolbarInit
    /\ shouldGroupWhenFull = FALSE
    /\ uiLanguageDirection = "ltr"

Init == UtilsInit /\ ToolbarInit

Next ==
    \/ AddItem
    \/ RemoveItem
    \/ FillFromConfig
    \/ Render
    \/ AppendToDocument
    \/ RemoveFromDocument
    \/ Resize
    \/ Destroy

Spec == Init /\ [][Next]_vars

InitUid == UtilsInit /\ ToolbarIdle
NextUid == Uid
SpecUid == InitUid /\ [][NextUid]_vars

InitCompare ==
    /\ next = 1
    /\ uidResults = <<>>
    /\ a \in Arrays
    /\ b \in Arrays
    /\ cmpResult = NotCalled
    /\ ToolbarIdle
NextCompare == CompareArrays
SpecCompare == InitCompare /\ [][NextCompare]_vars

(***************************************************************************)
(* The displayed components of a grouping toolbar and its focus order, as  *)
(* the class documentation describes them.                                 *)
(***************************************************************************)
ComponentsWhenGrouping ==
    IF groupedItems # <<>>
    THEN <<"itemsView", "separator", "groupedItemsDropdown">>
    ELSE <<"itemsView">>

FocusablesWhenGrouping ==
    ungroupedItems \o (IF groupedItems # <<>> THEN <<GroupedItemsDropdown>> ELSE <<>>)

NamesOf(seq) == [i \in 1..Len(seq) |-> seq[i].name]

RECURSIVE AvailableNames(_)
AvailableNames(config) ==
    IF config = <<>> THEN <<>>
    ELSE IF Head(config) \in ItemNames
    THEN <<Head(config)>> \o AvailableNames(Tail(config))
    ELSE AvailableNames(Tail(config))

(***************************************************************************)
(* C1: in a grouping toolbar, after any insertions, removals and           *)
(* resize-triggered updates, ungroupedItems followed by groupedItems is    *)
(* the items collection: same members, same order, no item in both.        *)
(***************************************************************************)
UngroupedThenGroupedIsItems ==
    shouldGroupWhenFull =>
        /\ ungroupedItems \o groupedItems = items
        /\ Range(ungroupedItems) \cap Range(groupedItems) = {}
        /\ Cardinality(Range(items)) = Len(items)

InsertedAmongGrouped ==
    /\ shouldGroupWhenFull
    /\ lastOp = "add"
    /\ Len(ungroupedItems) >= 1
    /\ Len(groupedItems) >= 2

(***************************************************************************)
(* C2: whenever updateGrouping() ran to its end on a grouping toolbar in   *)
(* the document, the ungrouped items do not overflow the toolbar row.      *)
(***************************************************************************)
NoOverflowAfterUpdate ==
    (shouldGroupWhenFull /\ inDocument /\ lastUpdate = "done") =>
        ~AreItemsOverflowing(Cur)

UpdatedWithSomeGrouped ==
    /\ shouldGroupWhenFull
    /\ inDocument
    /\ lastUpdate = "done"
    /\ Len(ungroupedItems) >= 1
    /\ Len(groupedItems) >= 1

(***************************************************************************)
(* C3: in a grouping toolbar the separator and the grouped items dropdown  *)
(* are in _components exactly when groupedItems is not empty; otherwise    *)
(* _components holds the items view alone.                                 *)
(***************************************************************************)
DropdownShownIffGrouped ==
    shouldGroupWhenFull => components = ComponentsWhenGrouping

(***************************************************************************)
(* C4: in a grouping toolbar, between operations, the focus-cycleable      *)
(* collection is ungroupedItems in order, followed by the grouped items    *)
(* dropdown exactly when groupedItems is not empty.                        *)
(***************************************************************************)
FocusFollowsUngroupedAndDropdown ==
    shouldGroupWhenFull => focusCycleableItems = FocusablesWhenGrouping

(***************************************************************************)
(* C5: fillFromConfig() on an empty toolbar ends without an error and      *)
(* leaves items holding, in the order of the config, one item for each     *)
(* '|' and each name the factory has; other names are left out.            *)
(***************************************************************************)
FillFromConfigKeepsOrder ==
    lastOp = "fillFromConfig" =>
        /\ thrown = "none"
        /\ NamesOf(items) = AvailableNames(lastConfig)

(***************************************************************************)
(* C6: in a toolbar without shouldGroupWhenFull, the displayed items and   *)
(* the focus-cycleable collection both equal items, and nothing is grouped.*)
(***************************************************************************)
StaticPassThrough ==
    ~shouldGroupWhenFull =>
        /\ itemsViewItems = items
        /\ focusCycleableItems = items
        /\ groupedItems = <<>>

(***************************************************************************)
(* C10: once destroy() was called on a grouping toolbar, the grouped items *)
(* dropdown is destroyed (displayed or not) and no resize observer is      *)
(* observing; a size change of the element after that leaves               *)
(* ungroupedItems and groupedItems as they are.                            *)
(***************************************************************************)
DestroyStopsGrouping ==
    /\ []((shouldGroupWhenFull /\ destroyCalled) =>
            (dropdownDestroyed /\ resizeObserver # "observing"))
    /\ [][(shouldGroupWhenFull /\ destroyCalled
              /\ lastOp' \in {"append", "detach", "resize"})
            => UNCHANGED <<ungroupedItems, groupedItems>>]_vars

ResizedAfterDestroy ==
    /\ shouldGroupWhenFull
    /\ destroyCalled
    /\ lastOp = "resize"
    /\ "groupedItemsDropdown" \notin Range(components)
    /\ inDocument
    /\ AreItemsOverflowing(Cur)

(***************************************************************************)
(* C11: an updateGrouping() call on a grouping toolbar that is not in the  *)
(* document (before render(), or rendered but detached) returns normally   *)
(* and leaves _components and the update lock as they were; when the       *)
(* operation does nothing else to the collections (render(), a detach),    *)
(* ungroupedItems and groupedItems are unchanged too.                      *)
(***************************************************************************)
DetachedUpdateDoesNothing ==
    [][(shouldGroupWhenFull /\ ~inDocument' /\ lastUpdate' # "none") =>
          /\ thrown' = "none"
          /\ lastUpdate' \in {"detached", "locked"}
          /\ UNCHANGED <<components, updateLock>>
          /\ lastOp' \in {"render", "detach"} =>
                 UNCHANGED <<ungroupedItems, groupedItems>>]_vars

(***************************************************************************)
(* C12: an updateGrouping() call made while the update lock is held        *)
(* returns at once: it ends without an exception, moves no item between    *)
(* ungroupedItems and groupedItems, and leaves _components and the lock    *)
(* as they were.                                                           *)
(***************************************************************************)
LockedUpdateMovesNothing ==
    [][(shouldGroupWhenFull /\ updateLock /\ lastUpdate' # "none") =>
          /\ lastUpdate' = "locked"
          /\ thrown' = "none"
          /\ Range(ungroupedItems) \cap Range(groupedItems') = {}
          /\ Range(groupedItems) \cap Range(ungroupedItems') = {}
          /\ UNCHANGED <<components, updateLock>>]_vars

LockedUpdateWhileOverflowing ==
    /\ shouldGroupWhenFull
    /\ updateLock
    /\ lastUpdate = "locked"
    /\ inDocument
    /\ AreItemsOverflowing(Cur)

(***************************************************************************)
(* C13: render() (enableGroupingOnResize) runs updateGrouping() once at    *)
(* once; afterwards a resize notification of the observed element runs it  *)
(* exactly when the notified width differs from the width of the previous  *)
(* notification, whatever the width is. Every change of toolbarWidth is    *)
(* notified, so before a Resize step toolbarWidth is the width of the      *)
(* previous notification.                                                  *)
(***************************************************************************)
UpdateOnlyOnWidthChange ==
    [][/\ (shouldGroupWhenFull /\ lastOp' = "render") => lastUpdate' # "none"
       /\ (shouldGroupWhenFull /\ resizeObserver = "observing" /\ lastOp' = "resize") =>
              ((lastUpdate' # "none") <=> (toolbarWidth' # toolbarWidth))]_vars

(***************************************************************************)
(* C7: uid() returns 1 on its first call and, on every later call, the     *)
(* previous result plus one: the i-th call returns i, so no value is ever  *)
(* returned twice.                                                         *)
(***************************************************************************)
UidCountsFromOne ==
    /\ \A i \in 1..Len(uidResults) : uidResults[i] = i
    /\ \A i, j \in 1..Len(uidResults) : i # j => uidResults[i] # uidResults[j]

UidCalledManyTimes == Len(uidResults) = MaxUidCalls

(***************************************************************************)
(* C8: compareArrays( a, b ) is SAME exactly when a = b, PREFIX exactly    *)
(* when a is a proper prefix of b, and DIFFERENT in every other case.      *)
(***************************************************************************)
IsProperPrefix(x, y) ==
    /\ Len(x) < Len(y)
    /\ \A i \in 1..Len(x) : x[i] = y[i]

====
